---- MODULE Spec2Model ----
(***************************************************************************)
(* Model of the minute-book section pipeline (team-3301):                  *)
(*   - SectionProcessor.fix_section_boundaries  (section_processor.py)     *)
(*   - APIClient._make_request                  (api_client.py)            *)
(* Each loop iteration of the source is one action.                        *)
(***************************************************************************)
EXTENDS Integers, Sequences, FiniteSets, TLC

----------------------------------------------------------------------------
(* Bounds of the model *)

\* longest enumerated input list of the reconciler over the narrow page range
MaxLen == 3
\* narrow page range 1..MaxPage, used with lists of up to MaxLen sections
MaxPage == 4
\* longest enumerated input list over the wide page range
WideLen == 2
\* wide page range 1..WidePage, used with lists of up to WideLen sections
WidePage == 8
\* largest max_retries an APIClient is constructed with
MaxRetriesBound == 3
\* number of _make_request calls made on one APIClient
MaxCalls == 2
MaxBatches == 2
MaxPoolRetries == 2
MaxTotalPages == 6
MaxBatchSize == 3
MaxElems == 2
MaxPageVal == 2
MaxSegments == 3
MaxLines == 5
AnsLen == 1
AnsPage == 2

----------------------------------------------------------------------------
(* Program constants *)

\* the gap-fill threshold of phase B: `if 0 < gap <= 5`
MaxGap == 5
\* base_delay = 1.5 seconds of _exponential_backoff, in tenths of a second
BaseDelayTenths == 15

----------------------------------------------------------------------------
VARIABLES
    sections,         \* argument of the running fix_section_boundaries call
    sorted_sections,  \* local list, sorted copy of the argument
    fixed_sections,   \* local list, output of phase A
    final_sections,   \* local list, output of phase B (the returned list)
    i,                \* loop index (1-based here, 0-based in the source)
    pc,               \* position inside fix_section_boundaries
    pass,             \* 1: first call, 2: the call on the first call's result
    first_input,      \* argument of the first call
    first_result,     \* list returned by the first call
    max_retries,      \* APIClient.max_retries
    request_count,    \* APIClient.request_count
    attempt,          \* loop variable of _make_request
    last_error,       \* local last_error of _make_request
    rpc,              \* position inside _make_request
    history,          \* outcome of every attempt of the running call, in order
    slept,            \* delays slept by the running call, in tenths of a second
    returned,         \* value returned by the finished call
    count_before,     \* request_count when the running call started
    calls,            \* number of calls started on this client
    batch_count,      \* len(batches) in _process_batches
    task,             \* position of the pool task of every batch
    posts,            \* attempts made so far by the task's _make_request call
    loaded,           \* value of self.request_count read by the task's += 1
    text_result,      \* batch['text_result'] of every batch
    writers,          \* who assigned batch['text_result'], in order
    handled,          \* futures the as_completed loop has gone through
    cpc,              \* position of the thread running _process_batches
    increments,       \* number of `request_count += 1` executed by all threads
    aggregated,       \* what _aggregate_batch_results read from the batches
    unfinished_at_read, \* tasks not completed when the batches were read
    headers,          \* batch_num of the headers of the aggregated text, in order
    collected,        \* batches in the order as_completed yielded their futures
    total_pages,      \* argument of _create_batches
    batch_size,       \* TextBasedClassifier.batch_size
    bi,               \* loop variable i of _create_batches (0-based)
    batches,          \* local list of _create_batches
    bpc,              \* position inside _create_batches
    all_rendered,     \* no create_page_grid_b64 call has returned None so far
    data,             \* argument of _validate_schema
    validated_sections, \* local list of _validate_schema
    idx,              \* loop index of _validate_schema (1-based here)
    spc,              \* position inside _validate_schema
    schema_result,    \* value returned by _validate_schema
    response_text,    \* argument of parse_json_response
    ppc,              \* position inside parse_json_response
    parse_result,     \* value returned by parse_json_response
    lines,            \* text.splitlines(): TRUE for a line with visible text
    strategy,         \* position in chunk_strategies of the strategy tried
    ci,               \* loop variable i of _extract_with_chunks (0-based)
    current_sections, \* local of _extract_with_chunks, with the strategy
                      \* (num_chunks) whose text call it was parsed from
    ipc,              \* position inside _identify_structure
    identified,       \* list returned by _identify_structure
    text_calls,       \* every call_text_api of the run, in order
    attempts          \* every finished _extract_with_chunks call, in order

fixVars == <<sections, sorted_sections, fixed_sections, final_sections, i, pc,
             pass, first_input, first_result>>

reqVars == <<max_retries, request_count, attempt, last_error, rpc, history,
             slept, returned, count_before, calls>>

\* the locals of one _make_request call and the model's record of it
reqLocal == <<attempt, last_error, rpc, history, slept, returned, count_before,
              calls>>

poolVars == <<batch_count, task, posts, loaded, text_result, writers, handled,
              cpc, increments, aggregated, unfinished_at_read, headers,
                   collected>>

\* what the actions of one component leave alone
batchVars == <<total_pages, batch_size, bi, batches, bpc, all_rendered>>

schemaVars == <<data, validated_sections, idx, spc, schema_result>>

parseVars == <<response_text, ppc, parse_result>>

resVars == <<lines, strategy, ci, current_sections, ipc, identified,
             text_calls, attempts>>

notFix == <<reqVars, poolVars, batchVars, schemaVars, parseVars, resVars>>
notReq == <<fixVars, poolVars, batchVars, schemaVars, parseVars, resVars>>
notPool == <<fixVars, reqLocal, batchVars, schemaVars, parseVars, resVars>>
notBatch == <<fixVars, reqVars, poolVars, schemaVars, parseVars, resVars>>
notSchema == <<fixVars, reqVars, poolVars, batchVars, parseVars, resVars>>
notParse == <<fixVars, reqVars, poolVars, batchVars, schemaVars, resVars>>
notRes == <<reqVars, poolVars, batchVars, schemaVars, parseVars>>

vars == <<sections, sorted_sections, fixed_sections, final_sections, i, pc,
          pass, first_input, first_result,
          max_retries, request_count, attempt, last_error, rpc, history,
          slept, returned, count_before, calls,
          batch_count, task, posts, loaded, text_result, writers, handled, cpc,
          increments, aggregated, unfinished_at_read, headers, collected,
          total_pages, batch_size, bi, batches, bpc, all_rendered,
          data, validated_sections, idx, spc, schema_result,
          response_text, ppc, parse_result,
          lines, strategy, ci, current_sections, ipc, identified, text_calls,
          attempts>>

----------------------------------------------------------------------------
(* Sections and input lists *)

NameOf == <<"A", "B", "C", "D", "E">>

Section(n, s, e) == [name |-> n, startPage |-> s, endPage |-> e]

\* a section as the schema validation lets it through: 1 <= startPage <= endPage
ValidSection(s) == s.startPage >= 1 /\ s.endPage >= s.startPage

Intervals(maxp) == {p \in (1..maxp) \X (1..maxp) : p[1] <= p[2]}

\* the list of n valid sections with the page bounds f[1], ..., f[n]; the k-th
\* section is named NameOf[k]
ListOf(n, f) == [k \in 1..n |-> Section(NameOf[k], f[k][1], f[k][2])]

\* sections is a list of at most n valid sections over pages 1..maxp
IsInputUpTo(n, maxp) ==
    \E m \in 0..n : \E f \in [1..m -> Intervals(maxp)] : sections = ListOf(m, f)

\* the worked examples of the specification
ExampleInputs ==
    { <<Section("A", 1, 10), Section("B", 1, 10)>>,
      <<Section("A", 1, 10), Section("B", 8, 20)>>,
      <<Section("A", 1, 10), Section("B", 16, 30)>>,
      <<Section("A", 1, 10), Section("B", 17, 30)>> }

----------------------------------------------------------------------------
(* sorted(sections, key=lambda s: s['startPage']) : a stable sort *)

RECURSIVE InsertByStart(_, _)
InsertByStart(x, s) ==
    IF s = <<>> THEN <<x>>
    ELSE IF s[Len(s)].startPage <= x.startPage
         THEN Append(s, x)
         ELSE Append(InsertByStart(x, SubSeq(s, 1, Len(s) - 1)), s[Len(s)])

RECURSIVE SortByStart(_)
SortByStart(s) ==
    IF s = <<>> THEN <<>>
    ELSE InsertByStart(s[Len(s)], SortByStart(SubSeq(s, 1, Len(s) - 1)))

----------------------------------------------------------------------------
(* fix_section_boundaries *)

InitFix ==
    /\ \/ IsInputUpTo(MaxLen, MaxPage)
       \/ IsInputUpTo(WideLen, WidePage)
       \/ sections \in ExampleInputs
    /\ first_input = sections
    /\ sorted_sections = <<>>
    /\ fixed_sections = <<>>
    /\ final_sections = <<>>
    /\ i = 1
    /\ pc = "call"
    /\ pass = 1
    /\ first_result = <<>>

\* the reconciler is not running
FixOff ==
    /\ sections = <<>>
    /\ first_input = <<>>
    /\ sorted_sections = <<>>
    /\ fixed_sections = <<>>
    /\ final_sections = <<>>
    /\ i = 1
    /\ pc = "off"
    /\ pass = 1
    /\ first_result = <<>>

\* if not sections: return sections
ReturnEmpty ==
    /\ pc = "call"
    /\ sections = <<>>
    /\ final_sections' = sections
    /\ pc' = "done"
    /\ UNCHANGED <<sections, sorted_sections, fixed_sections, i, pass,
                   first_input, first_result>>
    /\ UNCHANGED notFix

\* sorted_sections = sorted(...); fixed_sections = []; i = 0
SortSections ==
    /\ pc = "call"
    /\ sections # <<>>
    /\ sorted_sections' = SortByStart(sections)
    /\ fixed_sections' = <<>>
    /\ final_sections' = <<>>
    /\ i' = 1
    /\ pc' = "phaseA"
    /\ UNCHANGED <<sections, pass, first_input, first_result>>
    /\ UNCHANGED notFix

current == sorted_sections[i]
next_section == sorted_sections[i + 1]

\* the overlap test with > in place of >=
Overlapping_Strict ==
    /\ i < Len(sorted_sections)
    /\ current.endPage > next_section.startPage

\* i < len(sorted_sections) - 1 and current['endPage'] >= next_section['startPage']
Overlapping ==
    /\ i < Len(sorted_sections)
    /\ current.endPage >= next_section.startPage

ExactDuplicate ==
    /\ current.startPage = next_section.startPage
    /\ current.endPage = next_section.endPage

\* the split point rounded up instead of down
midpoint_Ceil == (current.endPage + next_section.startPage + 1) \div 2

midpoint == (current.endPage + next_section.startPage) \div 2

\* the dict named n of the argument assigned to in place
Rewritten_InPlace(n, endPage) ==
    [k \in 1..Len(sections) |->
        IF sections[k].name = n
        THEN Section(n, sections[k].startPage, endPage)
        ELSE sections[k]]

\* the argument after a section named n gets another endPage: the code builds
\* a new dict ({'name': ..., 'startPage': ..., 'endPage': ...}) and binds it to
\* a local name or stores it in the sorted copy, so the argument's dicts and
\* the argument list stay as they were
Rewritten(n, endPage) == sections

\* the duplicate branch: i += 1; continue  (nothing is appended)
DropDuplicate ==
    /\ pc = "phaseA"
    /\ i <= Len(sorted_sections)
    /\ Overlapping
    /\ ExactDuplicate
    /\ i' = i + 1
    /\ UNCHANGED <<sections, sorted_sections, fixed_sections, final_sections,
                   pc, pass, first_input, first_result>>
    /\ UNCHANGED notFix

\* the split branch: current and sorted_sections[i + 1] are rewritten
SplitOverlap ==
    /\ pc = "phaseA"
    /\ i <= Len(sorted_sections)
    /\ Overlapping
    /\ ~ExactDuplicate
    /\ fixed_sections' =
          Append(fixed_sections,
                 Section(current.name, current.startPage, midpoint))
    /\ sorted_sections' =
          [sorted_sections EXCEPT
              ![i + 1] = Section(next_section.name, midpoint + 1,
                                 next_section.endPage)]
    /\ i' = i + 1
    /\ sections' = Rewritten(current.name, midpoint)
    /\ UNCHANGED <<final_sections, pc, pass, first_input, first_result>>
    /\ UNCHANGED notFix

\* no overlap with the next section, or no next section
KeepSection ==
    /\ pc = "phaseA"
    /\ i <= Len(sorted_sections)
    /\ ~Overlapping
    /\ fixed_sections' = Append(fixed_sections, current)
    /\ i' = i + 1
    /\ UNCHANGED <<sections, sorted_sections, final_sections, pc, pass,
                   first_input, first_result>>
    /\ UNCHANGED notFix

\* the while loop ends; final_sections = []
EndPhaseA ==
    /\ pc = "phaseA"
    /\ i > Len(sorted_sections)
    /\ final_sections' = <<>>
    /\ i' = 1
    /\ pc' = "phaseB"
    /\ UNCHANGED <<sections, sorted_sections, fixed_sections, pass,
                   first_input, first_result>>
    /\ UNCHANGED notFix

section == fixed_sections[i]
gap_next == fixed_sections[i + 1]
gap == gap_next.startPage - section.endPage - 1

\* the gap test with < in place of <=
SmallGap_Exclusive ==
    /\ i < Len(fixed_sections)
    /\ 0 < gap
    /\ gap < MaxGap

\* i < len(fixed_sections) - 1 and 0 < gap <= 5
SmallGap ==
    /\ i < Len(fixed_sections)
    /\ 0 < gap
    /\ gap <= MaxGap

FillGap ==
    /\ pc = "phaseB"
    /\ i <= Len(fixed_sections)
    /\ SmallGap
    /\ final_sections' =
          Append(final_sections,
                 Section(section.name, section.startPage, gap_next.startPage - 1))
    /\ i' = i + 1
    /\ sections' = Rewritten(section.name, gap_next.startPage - 1)
    /\ UNCHANGED <<sorted_sections, fixed_sections, pc, pass,
                   first_input, first_result>>
    /\ UNCHANGED notFix

KeepGap ==
    /\ pc = "phaseB"
    /\ i <= Len(fixed_sections)
    /\ ~SmallGap
    /\ final_sections' = Append(final_sections, section)
    /\ i' = i + 1
    /\ UNCHANGED <<sections, sorted_sections, fixed_sections, pc, pass,
                   first_input, first_result>>
    /\ UNCHANGED notFix

\* return final_sections
ReturnFinal ==
    /\ pc = "phaseB"
    /\ i > Len(fixed_sections)
    /\ pc' = "done"
    /\ UNCHANGED <<sections, sorted_sections, fixed_sections, final_sections,
                   i, pass, first_input, first_result>>
    /\ UNCHANGED notFix

\* the reconciler is applied to its own output
Reapply ==
    /\ pc = "done"
    /\ pass = 1
    /\ first_result' = final_sections
    /\ sections' = final_sections
    /\ pass' = 2
    /\ pc' = "call"
    /\ sorted_sections' = <<>>
    /\ fixed_sections' = <<>>
    /\ final_sections' = <<>>
    /\ i' = 1
    /\ UNCHANGED first_input
    /\ UNCHANGED notFix

----------------------------------------------------------------------------
(* APIClient._make_request *)

\* HTTP status codes the backend answers with
Statuses == {200, 400, 404, 429, 500, 501, 502, 503, 504}

\* what one attempt ends in: an HTTP response (with the kind of its body when
\* the status is 200), or an exception raised by requests.post
Http(s, b) == [kind |-> "http", status |-> s, body |-> b]
Raised(k) == [kind |-> k, status |-> 0, body |-> "none"]

\* the local last_error
NoError == [kind |-> "none", status |-> 0]
ErrorOf(k, s) == [kind |-> k, status |-> s]

\* values _make_request returns
ResultValue(text) == [kind |-> "result", text |-> text, status |-> 0, last |-> NoError]
ApiError(s) == [kind |-> "api_error", text |-> "", status |-> s, last |-> NoError]
Failure(e) == [kind |-> "failed", text |-> "", status |-> 0, last |-> e]
NoValue == [kind |-> "none", text |-> "", status |-> 0, last |-> NoError]

\* base_delay * (2 ** attempt), in tenths of a second
RECURSIVE Pow2(_)
Pow2(n) == IF n = 0 THEN 1 ELSE 2 * Pow2(n - 1)

\* the delay computed from a 1-indexed attempt number
exponential_backoff_OneIndexed(a) == BaseDelayTenths * Pow2(a + 1)

exponential_backoff(a) == BaseDelayTenths * Pow2(a)

\* the server-error list with 404 added
IsServerError_With404(s) == s \in {404, 500, 502, 503, 504}

\* the server-error list without 502
IsServerError_No502(s) == s \in {500, 503, 504}

\* response.status_code in [500, 502, 503, 504]
IsServerError(s) == s \in {500, 502, 503, 504}

\* the retry test stopping one attempt early
MayRetry_Short(a) == a < max_retries - 2

\* attempt < self.max_retries - 1
MayRetry(a) == a < max_retries - 1

\* APIClient(api_url, api_key, max_retries): request_count = 0
InitReq ==
    /\ max_retries \in 0..MaxRetriesBound
    /\ request_count = 0
    /\ attempt = 0
    /\ last_error = NoError
    /\ rpc = "idle"
    /\ history = <<>>
    /\ slept = <<>>
    /\ returned = NoValue
    /\ count_before = 0
    /\ calls = 0

\* no client is in use
ReqOff ==
    /\ max_retries = 0
    /\ request_count = 0
    /\ attempt = 0
    /\ last_error = NoError
    /\ rpc = "off"
    /\ history = <<>>
    /\ slept = <<>>
    /\ returned = NoValue
    /\ count_before = 0
    /\ calls = 0

\* _make_request is entered: last_error = None, the for loop starts at 0
StartRequest ==
    /\ rpc \in {"idle", "returned"}
    /\ calls < MaxCalls
    /\ calls' = calls + 1
    /\ attempt' = 0
    /\ last_error' = NoError
    /\ history' = <<>>
    /\ slept' = <<>>
    /\ returned' = NoValue
    /\ count_before' = request_count
    /\ rpc' = "loop"
    /\ UNCHANGED <<max_retries, request_count>>
    /\ UNCHANGED notReq

\* the loop running one iteration too many
InLoop_OneMore == rpc = "loop" /\ attempt <= max_retries

\* the counter left as it was when a response arrives
CountAfterResponse_Unchanged == request_count

\* self.request_count += 1, the statement after requests.post
CountAfterResponse == request_count + 1

\* for attempt in range(self.max_retries)
InLoop == rpc = "loop" /\ attempt < max_retries

\* the handler shared by the Timeout and RequestException clauses: set
\* last_error, then sleep and continue when attempts remain, else fall out of
\* the try statement into the next (absent) iteration
RetryAfter(err) ==
    /\ last_error' = err
    /\ slept' = IF MayRetry(attempt)
                THEN Append(slept, exponential_backoff(attempt))
                ELSE slept
    /\ attempt' = attempt + 1
    /\ rpc' = "loop"
    /\ UNCHANGED returned

\* the `except Exception` clause handled like the network clauses
BreakWith_Retry(err) == RetryAfter(err)

\* the `except Exception` clause: set last_error and break
BreakWith(err) ==
    /\ last_error' = err
    /\ rpc' = "exit"
    /\ UNCHANGED <<slept, attempt, returned>>

\* no clause of the try statement matches: the exception leaves _make_request
Propagate ==
    /\ rpc' = "raised"
    /\ UNCHANGED <<last_error, slept, attempt, returned>>

\* the classes an exception is an instance of (Timeout and the JSONDecodeError
\* of requests are RequestExceptions; every exception raised is an Exception)
Ancestors(exc) ==
    CASE exc = "Timeout" -> {"Timeout", "RequestException", "Exception"}
      [] exc = "RequestException" -> {"RequestException", "Exception"}
      [] exc = "RequestsJSONDecodeError" -> {"RequestException", "Exception"}
      [] OTHER -> {"Exception"}

\* the try statement without its last clause
ExceptClauses_NoCatchAll == <<"Timeout", "RequestException">>

\* the except clauses of the try statement, in source order
ExceptClauses == <<"Timeout", "RequestException", "Exception">>

\* the first clause that matches the exception runs
Handle(exc) ==
    LET matching == {k \in 1..Len(ExceptClauses) : ExceptClauses[k] \in Ancestors(exc)}
    IN  IF matching = {}
        THEN Propagate
        ELSE LET clause == ExceptClauses[CHOOSE k \in matching :
                                           \A m \in matching : k <= m]
             IN  CASE clause = "Timeout" -> RetryAfter(ErrorOf("timeout", 0))
                   [] clause = "RequestException" -> RetryAfter(ErrorOf("request", 0))
                   [] OTHER -> BreakWith(ErrorOf("unexpected", 0))

\* status 200, the body decodes to an object: return result.get("result", "")
ReceiveSuccess ==
    /\ InLoop
    /\ \E b \in {"result", "noresult"} :
          /\ history' = Append(history, Http(200, b))
          /\ returned' = ResultValue(IF b = "result" THEN "RESULT" ELSE "")
    /\ request_count' = CountAfterResponse
    /\ rpc' = "returned"
    /\ UNCHANGED <<max_retries, attempt, last_error, slept, count_before, calls>>
    /\ UNCHANGED notReq

\* status 200, response.json() raises: the exception is a RequestException
\* (requests.exceptions.JSONDecodeError) or a plain ValueError, depending on
\* the installed requests version
ReceiveUndecodable ==
    /\ InLoop
    /\ history' = Append(history, Http(200, "notjson"))
    /\ request_count' = CountAfterResponse
    /\ \/ Handle("RequestsJSONDecodeError")
       \/ Handle("ValueError")
    /\ UNCHANGED <<max_retries, count_before, calls>>
    /\ UNCHANGED notReq

\* status 200, the body decodes to a value without .get (a list, a number):
\* AttributeError, caught by `except Exception`
ReceiveNonObject ==
    /\ InLoop
    /\ history' = Append(history, Http(200, "notdict"))
    /\ request_count' = CountAfterResponse
    /\ Handle("AttributeError")
    /\ UNCHANGED <<max_retries, count_before, calls>>
    /\ UNCHANGED notReq

\* a status of the server-error list: back off and continue when attempts
\* remain, else fall through to the `Erreur API` return
ReceiveServerError ==
    /\ InLoop
    /\ \E s \in Statuses :
          /\ s # 200
          /\ IsServerError(s)
          /\ history' = Append(history, Http(s, "none"))
          /\ last_error' = ErrorOf("server", s)
          /\ IF MayRetry(attempt)
             THEN /\ slept' = Append(slept, exponential_backoff(attempt))
                  /\ attempt' = attempt + 1
                  /\ rpc' = "loop"
                  /\ UNCHANGED returned
             ELSE /\ returned' = ApiError(s)
                  /\ rpc' = "returned"
                  /\ UNCHANGED <<slept, attempt>>
    /\ request_count' = CountAfterResponse
    /\ UNCHANGED <<max_retries, count_before, calls>>
    /\ UNCHANGED notReq

\* any other status: return f"Erreur API: {status} - ..."
ReceiveOtherStatus ==
    /\ InLoop
    /\ \E s \in Statuses :
          /\ s # 200
          /\ ~IsServerError(s)
          /\ history' = Append(history, Http(s, "none"))
          /\ returned' = ApiError(s)
    /\ request_count' = CountAfterResponse
    /\ rpc' = "returned"
    /\ UNCHANGED <<max_retries, attempt, last_error, slept, count_before, calls>>
    /\ UNCHANGED notReq

\* requests.post raises requests.exceptions.Timeout
RequestTimeout ==
    /\ InLoop
    /\ history' = Append(history, Raised("timeout"))
    /\ Handle("Timeout")
    /\ UNCHANGED <<max_retries, request_count, count_before, calls>>
    /\ UNCHANGED notReq

\* requests.post raises another requests.exceptions.RequestException
RequestFailed ==
    /\ InLoop
    /\ history' = Append(history, Raised("connection"))
    /\ Handle("RequestException")
    /\ UNCHANGED <<max_retries, request_count, count_before, calls>>
    /\ UNCHANGED notReq

\* requests.post raises any other exception
UnexpectedError ==
    /\ InLoop
    /\ history' = Append(history, Raised("unexpected"))
    /\ Handle("Exception")
    /\ UNCHANGED <<max_retries, request_count, count_before, calls>>
    /\ UNCHANGED notReq

\* range(self.max_retries) is exhausted
LoopEnd ==
    /\ rpc = "loop"
    /\ attempt >= max_retries
    /\ rpc' = "exit"
    /\ UNCHANGED <<max_retries, request_count, attempt, last_error, history,
                   slept, returned, count_before, calls>>
    /\ UNCHANGED notReq

\* return f"Requête échouée après {self.max_retries} tentatives: {last_error}"
ReturnFailure ==
    /\ rpc = "exit"
    /\ returned' = Failure(last_error)
    /\ rpc' = "returned"
    /\ UNCHANGED <<max_retries, request_count, attempt, last_error, history,
                   slept, count_before, calls>>
    /\ UNCHANGED notReq

----------------------------------------------------------------------------
(* TextBasedClassifier._process_batches: the batch pool (classifier.py) and
   the request counter its workers share (api_client.py) *)

\* ThreadPoolExecutor(max_workers=10)
MaxWorkers == 10

Batches == 1..batch_count

Completed == {b \in Batches : task[b] \in {"done", "failed"}}

Running == {b \in Batches : task[b] \in {"loop", "incr", "returning"}}

InitPool ==
    /\ batch_count \in 0..MaxBatches
    /\ task = [b \in Batches |-> "new"]
    /\ posts = [b \in Batches |-> 0]
    /\ loaded = [b \in Batches |-> 0]
    /\ text_result = [b \in Batches |-> "None"]
    /\ writers = [b \in Batches |-> <<>>]
    /\ handled = {}
    /\ cpc = "submit"
    /\ increments = 0
    /\ aggregated = <<>>
    /\ unfinished_at_read = {}
    /\ headers = <<>>
    /\ collected = <<>>

\* no pool is in use
PoolOff ==
    /\ batch_count = 0
    /\ task = <<>>
    /\ posts = <<>>
    /\ loaded = <<>>
    /\ text_result = <<>>
    /\ writers = <<>>
    /\ handled = {}
    /\ cpc = "off"
    /\ increments = 0
    /\ aggregated = <<>>
    /\ unfinished_at_read = {}
    /\ headers = <<>>
    /\ collected = <<>>

\* executor.submit(process_batch, batch), one batch after the other
Submit(b) ==
    /\ cpc = "submit"
    /\ b \in Batches
    /\ task[b] = "new"
    /\ \A a \in 1..(b - 1) : task[a] # "new"
    /\ task' = [task EXCEPT ![b] = "queued"]
    /\ UNCHANGED <<batch_count, posts, loaded, text_result, writers, handled,
                   cpc, increments, aggregated, unfinished_at_read, headers,
                   collected>>
    /\ UNCHANGED <<max_retries, request_count>>
    /\ UNCHANGED notPool

\* every batch is submitted: the as_completed loop starts
BeginCollect ==
    /\ cpc = "submit"
    /\ \A b \in Batches : task[b] # "new"
    /\ cpc' = "collect"
    /\ UNCHANGED <<batch_count, task, posts, loaded, text_result, writers,
                   handled, increments, aggregated, unfinished_at_read, headers,
                   collected>>
    /\ UNCHANGED <<max_retries, request_count>>
    /\ UNCHANGED notPool

\* a free worker thread takes the task: process_batch runs up to the for loop
\* of _make_request
StartTask(b) ==
    /\ b \in Batches
    /\ task[b] = "queued"
    /\ Cardinality(Running) < MaxWorkers
    /\ task' = [task EXCEPT ![b] = "loop"]
    /\ UNCHANGED <<batch_count, posts, loaded, text_result, writers, handled,
                   cpc, increments, aggregated, unfinished_at_read, headers,
                   collected>>
    /\ UNCHANGED <<max_retries, request_count>>
    /\ UNCHANGED notPool

\* requests.post returned a response: the worker evaluates the right-hand side
\* of self.request_count += 1 (it reads the attribute)
PostResponds(b) ==
    /\ b \in Batches
    /\ task[b] = "loop"
    /\ posts[b] < max_retries
    /\ posts' = [posts EXCEPT ![b] = @ + 1]
    /\ loaded' = [loaded EXCEPT ![b] = request_count]
    /\ task' = [task EXCEPT ![b] = "incr"]
    /\ UNCHANGED <<batch_count, text_result, writers, handled, cpc, increments,
                   aggregated, unfinished_at_read, headers,
                   collected>>
    /\ UNCHANGED <<max_retries, request_count>>
    /\ UNCHANGED notPool

\* the value the worker assigns to self.request_count: what it read, plus 1
StoredCount(b) == loaded[b] + 1

\* the worker stores the attribute; the response then leads to another attempt
\* (a retryable status, attempts remaining) or to a return
StoreCount(b) ==
    /\ b \in Batches
    /\ task[b] = "incr"
    /\ request_count' = StoredCount(b)
    /\ increments' = increments + 1
    /\ loaded' = [loaded EXCEPT ![b] = 0]
    /\ \/ /\ posts[b] < max_retries
          /\ task' = [task EXCEPT ![b] = "loop"]
       \/ task' = [task EXCEPT ![b] = "returning"]
    /\ UNCHANGED <<batch_count, posts, text_result, writers, handled, cpc,
                   aggregated, unfinished_at_read, headers,
                   collected>>
    /\ UNCHANGED max_retries
    /\ UNCHANGED notPool

\* requests.post raised (timeout, connection): the counter is not touched; the
\* loop goes on, or is left at once for an unexpected exception
PostRaises(b) ==
    /\ b \in Batches
    /\ task[b] = "loop"
    /\ posts[b] < max_retries
    /\ posts' = [posts EXCEPT ![b] = @ + 1]
    /\ \E t \in {"loop", "returning"} : task' = [task EXCEPT ![b] = t]
    /\ UNCHANGED <<batch_count, loaded, text_result, writers, handled, cpc,
                   increments, aggregated, unfinished_at_read, headers,
                   collected>>
    /\ UNCHANGED <<max_retries, request_count>>
    /\ UNCHANGED notPool

\* range(max_retries) is used up: _make_request returns its failure string
AttemptsUsedUp(b) ==
    /\ b \in Batches
    /\ task[b] = "loop"
    /\ posts[b] >= max_retries
    /\ task' = [task EXCEPT ![b] = "returning"]
    /\ UNCHANGED <<batch_count, posts, loaded, text_result, writers, handled,
                   cpc, increments, aggregated, unfinished_at_read, headers,
                   collected>>
    /\ UNCHANGED <<max_retries, request_count>>
    /\ UNCHANGED notPool

\* batch['text_result'] = response; return batch
WriteResult(b) ==
    /\ b \in Batches
    /\ task[b] = "returning"
    /\ text_result' = [text_result EXCEPT ![b] = "response"]
    /\ writers' = [writers EXCEPT ![b] = Append(@, "worker")]
    /\ task' = [task EXCEPT ![b] = "done"]
    /\ posts' = [posts EXCEPT ![b] = 0]
    /\ UNCHANGED <<batch_count, loaded, handled, cpc, increments, aggregated,
                   unfinished_at_read, headers,
                   collected>>
    /\ UNCHANGED <<max_retries, request_count>>
    /\ UNCHANGED notPool

\* an exception leaves process_batch; every statement that can raise comes
\* before the assignment of text_result
TaskRaises(b) ==
    /\ b \in Batches
    /\ task[b] = "loop"
    /\ task' = [task EXCEPT ![b] = "failed"]
    /\ posts' = [posts EXCEPT ![b] = 0]
    /\ UNCHANGED <<batch_count, loaded, text_result, writers, handled, cpc,
                   increments, aggregated, unfinished_at_read, headers,
                   collected>>
    /\ UNCHANGED <<max_retries, request_count>>
    /\ UNCHANGED notPool

\* the except branch that swallows the failure without writing a marker
NeedsMarker_Never(b) == FALSE

\* the except branch taken for every future
NeedsMarker_Always(b) == TRUE

\* future.result() raises what the task raised
NeedsMarker(b) == task[b] = "failed"

\* one iteration of the as_completed loop, on a future that has completed
Collect(b) ==
    /\ cpc = "collect"
    /\ b \in Completed \ handled
    /\ handled' = handled \cup {b}
    /\ collected' = Append(collected, b)
    /\ IF NeedsMarker(b)
       THEN /\ text_result' = [text_result EXCEPT ![b] = "ERREUR"]
            /\ writers' = [writers EXCEPT ![b] = Append(@, "collector")]
       ELSE UNCHANGED <<text_result, writers>>
    /\ UNCHANGED <<batch_count, task, posts, loaded, cpc, increments,
                   aggregated, unfinished_at_read, headers>>
    /\ UNCHANGED <<max_retries, request_count>>
    /\ UNCHANGED notPool

\* as_completed is exhausted; leaving the with block joins the pool
ExitPool ==
    /\ cpc = "collect"
    /\ handled = Batches
    /\ cpc' = "joined"
    /\ UNCHANGED <<batch_count, task, posts, loaded, text_result, writers,
                   handled, increments, aggregated, unfinished_at_read, headers,
                   collected>>
    /\ UNCHANGED <<max_retries, request_count>>
    /\ UNCHANGED notPool

\* the batches taken in the order their futures completed
AggregationOrder_Completion == collected

\* for batch in batches: the list as it was passed to _process_batches
AggregationOrder == [k \in Batches |-> k]

\* _identify_structure: _aggregate_batch_results appends, for every batch in
\* turn, its header and its text_result
Aggregate ==
    /\ cpc = "joined"
    /\ headers' = AggregationOrder
    /\ aggregated' = [k \in 1..Len(AggregationOrder) |->
                         text_result[AggregationOrder[k]]]
    /\ unfinished_at_read' = Batches \ Completed
    /\ cpc' = "done"
    /\ UNCHANGED <<batch_count, task, posts, loaded, text_result, writers,
                   handled, increments, collected>>
    /\ UNCHANGED <<max_retries, request_count>>
    /\ UNCHANGED notPool

----------------------------------------------------------------------------
(* TextBasedClassifier._create_batches (classifier.py) *)

InitBatch ==
    /\ total_pages \in 0..MaxTotalPages
    /\ batch_size \in 1..MaxBatchSize
    /\ bi = 0
    /\ batches = <<>>
    /\ bpc = "loop"
    /\ all_rendered = TRUE

\* no document is being cut into batches
BatchOff ==
    /\ total_pages = 0
    /\ batch_size = 1
    /\ bi = 0
    /\ batches = <<>>
    /\ bpc = "off"
    /\ all_rendered = TRUE

\* the end of the range without the clipping to total_pages
BatchEnd_Unclipped == bi + batch_size

\* min(i + self.batch_size, total_pages)
BatchEnd == IF bi + batch_size < total_pages THEN bi + batch_size ELSE total_pages

\* list(range(i, min(i + self.batch_size, total_pages)))
batch_indices == [k \in 1..(BatchEnd - bi) |-> bi + k - 1]

\* the grid rendered: the batch is appended
AppendBatch ==
    /\ bpc = "loop"
    /\ bi < total_pages
    /\ batches' = Append(batches,
          [batch_num |-> Len(batches) + 1,
           start_page |-> batch_indices[1] + 1,
           end_page |-> batch_indices[Len(batch_indices)] + 1,
           page_nums |-> [k \in 1..Len(batch_indices) |-> batch_indices[k] + 1]])
    /\ bi' = bi + batch_size
    /\ UNCHANGED <<total_pages, batch_size, bpc, all_rendered>>
    /\ UNCHANGED notBatch

\* create_page_grid_b64 returned None: the batch is left out
SkipBatch ==
    /\ bpc = "loop"
    /\ bi < total_pages
    /\ all_rendered' = FALSE
    /\ bi' = bi + batch_size
    /\ UNCHANGED <<total_pages, batch_size, batches, bpc>>
    /\ UNCHANGED notBatch

\* range(0, total_pages, self.batch_size) is exhausted: return batches
ReturnBatches ==
    /\ bpc = "loop"
    /\ bi >= total_pages
    /\ bpc' = "returned"
    /\ UNCHANGED <<total_pages, batch_size, bi, batches, all_rendered>>
    /\ UNCHANGED notBatch

----------------------------------------------------------------------------
(* APIClient._validate_schema (api_client.py) *)

\* JSON values met in a page field: an integer, a float (num halves, so 3 is
\* 1.5), a string of digits, another string, null, and the float json.loads
\* makes of Infinity or 1e999
IntVal(n) == [kind |-> "int", num |-> n]
FloatVal(h) == [kind |-> "float", num |-> h]
StrVal(n) == [kind |-> "str", num |-> n]
BadStr == [kind |-> "badstr", num |-> 0]
NullVal == [kind |-> "null", num |-> 0]
InfVal == [kind |-> "inf", num |-> 0]

PageValues ==
    {IntVal(n) : n \in 0..MaxPageVal}
        \cup {FloatVal(3), StrVal(1), BadStr, NullVal, InfVal}

\* the exception int(v) raises, "no" when it returns
Raises(v) ==
    CASE v.kind = "badstr" -> "ValueError"
      [] v.kind = "null" -> "TypeError"
      [] v.kind = "inf" -> "OverflowError"
      [] OTHER -> "no"

\* the value int(v) returns: a float is truncated toward zero
IntOf(v) ==
    IF v.kind = "float"
    THEN IF v.num >= 0 THEN v.num \div 2 ELSE 0 - ((0 - v.num) \div 2)
    ELSE v.num

\* the elements of a sections list: a non-object, an object lacking a required
\* field, an object with the three fields
Elements ==
    {[kind |-> "nondict", startPage |-> NullVal, endPage |-> NullVal],
     [kind |-> "missing", startPage |-> NullVal, endPage |-> NullVal]}
        \cup {[kind |-> "dict", startPage |-> s, endPage |-> e] :
                 s \in PageValues, e \in PageValues}

Named(e, k) == [kind |-> e.kind, name |-> NameOf[k], startPage |-> e.startPage,
                endPage |-> e.endPage]

NoneResult == [kind |-> "None", sections |-> <<>>]

InitSchema ==
    /\ \/ \E shape \in {"notdict", "nosections", "notlist"} :
             data = [shape |-> shape, sections |-> <<>>]
       \/ \E m \in 0..MaxElems : \E f \in [1..m -> Elements] :
             data = [shape |-> "list",
                     sections |-> [k \in 1..m |-> Named(f[k], k)]]
    /\ validated_sections = <<>>
    /\ idx = 1
    /\ spc = "call"
    /\ schema_result = NoneResult

\* no validation is running
SchemaOff ==
    /\ data = [shape |-> "notdict", sections |-> <<>>]
    /\ validated_sections = <<>>
    /\ idx = 1
    /\ spc = "off"
    /\ schema_result = NoneResult

\* data is no dict, has no "sections" key, or "sections" is no list
RejectShape ==
    /\ spc = "call"
    /\ data.shape # "list"
    /\ spc' = "returned"
    /\ schema_result' = NoneResult
    /\ UNCHANGED <<data, validated_sections, idx>>
    /\ UNCHANGED notSchema

\* the element the loop is at
element == data.sections[idx]

AtElement ==
    /\ spc = "call"
    /\ data.shape = "list"
    /\ idx <= Len(data.sections)

SkipNonDict ==
    /\ AtElement
    /\ element.kind = "nondict"
    /\ idx' = idx + 1
    /\ UNCHANGED <<data, validated_sections, spc, schema_result>>
    /\ UNCHANGED notSchema

SkipMissingField ==
    /\ AtElement
    /\ element.kind = "missing"
    /\ idx' = idx + 1
    /\ UNCHANGED <<data, validated_sections, spc, schema_result>>
    /\ UNCHANGED notSchema

\* the exception raised inside the try block: int(startPage) is evaluated
\* before int(endPage)
Coercion ==
    IF Raises(element.startPage) # "no"
    THEN Raises(element.startPage)
    ELSE Raises(element.endPage)

\* except (ValueError, TypeError)
CaughtBySchema == {"ValueError", "TypeError"}

\* a conversion raised: the element is skipped if the except clause matches,
\* otherwise the exception leaves _validate_schema
CoercionRaises ==
    /\ AtElement
    /\ element.kind = "dict"
    /\ Coercion # "no"
    /\ IF Coercion \in CaughtBySchema
       THEN idx' = idx + 1 /\ spc' = spc
       ELSE idx' = idx /\ spc' = "raised"
    /\ UNCHANGED <<data, validated_sections, schema_result>>
    /\ UNCHANGED notSchema

start_page == IntOf(element.startPage)

end_page == IntOf(element.endPage)

Converted ==
    /\ AtElement
    /\ element.kind = "dict"
    /\ Coercion = "no"

\* if start_page < 1: continue
SkipBadStart ==
    /\ Converted
    /\ start_page < 1
    /\ idx' = idx + 1
    /\ UNCHANGED <<data, validated_sections, spc, schema_result>>
    /\ UNCHANGED notSchema

\* if end_page < start_page: continue
SkipInverted ==
    /\ Converted
    /\ start_page >= 1
    /\ end_page < start_page
    /\ idx' = idx + 1
    /\ UNCHANGED <<data, validated_sections, spc, schema_result>>
    /\ UNCHANGED notSchema

AppendSection ==
    /\ Converted
    /\ start_page >= 1
    /\ end_page >= start_page
    /\ validated_sections' =
          Append(validated_sections, Section(element.name, start_page, end_page))
    /\ idx' = idx + 1
    /\ UNCHANGED <<data, spc, schema_result>>
    /\ UNCHANGED notSchema

\* the loop is over: None for an empty list, the validated sections otherwise
ReturnValidated ==
    /\ spc = "call"
    /\ data.shape = "list"
    /\ idx > Len(data.sections)
    /\ spc' = "returned"
    /\ schema_result' = IF validated_sections = <<>>
                        THEN NoneResult
                        ELSE [kind |-> "dict", sections |-> validated_sections]
    /\ UNCHANGED <<data, validated_sections, idx>>
    /\ UNCHANGED notSchema

----------------------------------------------------------------------------
(* APIClient.parse_json_response (api_client.py) *)

\* A response text is a sequence of segments separated by words: plain words,
\* or an object written bare, in a fence tagged json, in an untagged fence or
\* between single backticks.  The object is not JSON ("bad"), is {} ("empty"),
\* parses but fails the schema ("invalid"), parses and passes it ("valid"), or
\* is a valid one with a trailing comma ("repairable").
Kinds == {"bad", "empty", "invalid", "valid", "repairable"}

Forms == {"tagged", "untagged", "inline", "bare"}

Segments ==
    {[form |-> "prose", kind |-> "none"]}
        \cup {[form |-> f, kind |-> k] : f \in Forms, k \in Kinds}

\* a parsed object, named by the position of the segment it was read from
Candidate(p, k) == [pos |-> p, kind |-> k]

NoCandidate == Candidate(0, "none")

NoResult == [stage |-> "none", pos |-> 0]

InitParse ==
    /\ \E m \in 0..MaxSegments : response_text \in [1..m -> Segments]
    /\ ppc = "direct"
    /\ parse_result = NoResult

\* no response is being parsed
ParseOff ==
    /\ response_text = <<>>
    /\ ppc = "off"
    /\ parse_result = NoResult

\* json.loads succeeds on the object
Parses(k) == k \in {"empty", "invalid", "valid"}

\* json.loads(text): the whole text must be one object
attempt_direct_parse(text) ==
    IF Len(text) = 1 /\ text[1].form = "bare" /\ Parses(text[1].kind)
    THEN Candidate(1, text[1].kind)
    ELSE NoCandidate

\* the matches of one pattern, in text order: the first that parses, 0 if none
FirstParsing(text, form) ==
    LET hits == {k \in 1..Len(text) : text[k].form = form /\ Parses(text[k].kind)}
    IN  IF hits = {} THEN 0 ELSE CHOOSE k \in hits : \A m \in hits : k <= m

\* the three patterns in order; the first match that parses is returned
extract_from_code_blocks(text) ==
    LET tagged == FirstParsing(text, "tagged")
        untagged == FirstParsing(text, "untagged")
        inline == FirstParsing(text, "inline")
        first == IF tagged # 0 THEN tagged
                 ELSE IF untagged # 0 THEN untagged ELSE inline
    IN  IF first = 0 THEN NoCandidate ELSE Candidate(first, text[first].kind)

\* the span from the first "{" to its matching "}", parsed or None
extract_by_brackets(text) ==
    LET braces == {k \in 1..Len(text) : text[k].form # "prose"}
    IN  IF braces = {}
        THEN NoCandidate
        ELSE LET first == CHOOSE k \in braces : \A m \in braces : k <= m
             IN  IF Parses(text[first].kind)
                 THEN Candidate(first, text[first].kind)
                 ELSE NoCandidate

\* the fixes of _attempt_recovery applied to the text: trailing commas go
cleaned(text) ==
    [k \in 1..Len(text) |->
        [form |-> text[k].form,
         kind |-> IF text[k].kind = "repairable" THEN "valid" ELSE text[k].kind]]

\* json.loads(cleaned), else _extract_by_brackets(cleaned)
attempt_recovery(text) ==
    IF attempt_direct_parse(cleaned(text)) # NoCandidate
    THEN attempt_direct_parse(cleaned(text))
    ELSE extract_by_brackets(cleaned(text))

\* `if candidate:` and `if validated:` -- the candidate is a non-empty object
\* that _validate_schema accepts
Accepted(c) == c.pos # 0 /\ c.kind = "valid"

\* if not response_text or not response_text.strip(): return None
ReturnEmptyResponse ==
    /\ ppc = "direct"
    /\ response_text = <<>>
    /\ ppc' = "returned"
    /\ parse_result' = NoResult
    /\ UNCHANGED response_text
    /\ UNCHANGED notParse

\* one stage: its candidate is returned if accepted, else the next stage runs
Stage(name, c, next) ==
    /\ ppc = name
    /\ IF Accepted(c)
       THEN /\ ppc' = "returned"
            /\ parse_result' = [stage |-> name, pos |-> c.pos]
       ELSE /\ ppc' = next
            /\ parse_result' = NoResult
    /\ UNCHANGED response_text
    /\ UNCHANGED notParse

DirectParse ==
    /\ response_text # <<>>
    /\ Stage("direct", attempt_direct_parse(response_text), "blocks")

CodeBlocks ==
    Stage("blocks", extract_from_code_blocks(response_text), "brackets")

Brackets ==
    Stage("brackets", extract_by_brackets(response_text), "recovery")

\* the last stage: with no accepted candidate the function returns None
Recovery ==
    Stage("recovery", attempt_recovery(response_text), "returned")

----------------------------------------------------------------------------
(* TextBasedClassifier._identify_structure and _extract_with_chunks
   (classifier.py) *)

\* the strategies tried from the finest to the coarsest
chunk_strategies_Reversed == <<5, 3, 1>>

\* chunk_strategies = [1, 3, 5]
chunk_strategies == <<1, 3, 5>>

num_chunks == chunk_strategies[strategy]

\* current_sections carried over from the strategy before
FreshSections_Carried == current_sections

\* current_sections = []
FreshSections == [origin |-> 0, list |-> <<>>]

InitRes ==
    /\ \E n \in 0..MaxLines : lines \in [1..n -> BOOLEAN]
    /\ strategy = 1
    /\ ci = 0
    /\ current_sections = [origin |-> 0, list |-> <<>>]
    /\ ipc = "strategy"
    /\ identified = <<>>
    /\ text_calls = <<>>
    /\ attempts = <<>>

\* no structure resolution is running
ResOff ==
    /\ lines = <<>>
    /\ strategy = 1
    /\ ci = 0
    /\ current_sections = [origin |-> 0, list |-> <<>>]
    /\ ipc = "off"
    /\ identified = <<>>
    /\ text_calls = <<>>
    /\ attempts = <<>>

\* chunk_size = (total_lines + num_chunks - 1) // num_chunks
chunk_size(n) == (Len(lines) + n - 1) \div n

\* the indices (1-based) of lines[start:end] for chunk c of n
ChunkLines(n, c) ==
    LET start == c * chunk_size(n)
        stop == IF (c + 1) * chunk_size(n) < Len(lines)
                THEN (c + 1) * chunk_size(n) ELSE Len(lines)
    IN  (start + 1)..stop

\* the blank test that lets every chunk through
IsBlank_Never(n, c) == FALSE

\* not chunk_text.strip()
IsBlank(n, c) == \A k \in ChunkLines(n, c) : ~lines[k]

\* for chunk_count in chunk_strategies: _extract_with_chunks is entered
StartStrategy ==
    /\ ipc = "strategy"
    /\ strategy <= Len(chunk_strategies)
    /\ current_sections' = FreshSections
    /\ ci' = 0
    /\ ipc' = "chunk"
    /\ UNCHANGED <<lines, strategy, identified, text_calls, attempts>>
    /\ UNCHANGED fixVars
    /\ UNCHANGED notRes

AtChunk ==
    /\ ipc = "chunk"
    /\ ci < num_chunks

\* if not chunk_text.strip(): continue
SkipBlankChunk ==
    /\ AtChunk
    /\ IsBlank(num_chunks, ci)
    /\ ci' = ci + 1
    /\ UNCHANGED <<lines, strategy, current_sections, ipc, identified,
                   text_calls, attempts>>
    /\ UNCHANGED fixVars
    /\ UNCHANGED notRes

\* the prompt is built from current_sections and sent
TextCall(outcome) ==
    Append(text_calls, [num_chunks |-> num_chunks, part |-> ci + 1,
                        context |-> current_sections.origin,
                        outcome |-> outcome])

\* the end of one _extract_with_chunks call
Attempt(ok, result) ==
    Append(attempts, [num_chunks |-> num_chunks, ok |-> ok, result |-> result])

\* parse_json_response returned a dict: its sections are a non-empty list of
\* sections with 1 <= startPage <= endPage
ChunkParsed ==
    /\ AtChunk
    /\ ~IsBlank(num_chunks, ci)
    /\ \/ \E m \in 1..AnsLen : \E f \in [1..m -> Intervals(AnsPage)] :
             current_sections' = [origin |-> num_chunks, list |-> ListOf(m, f)]
       \/ \E x \in ExampleInputs :
             current_sections' = [origin |-> num_chunks, list |-> x]
    /\ text_calls' = TextCall("sections")
    /\ ci' = ci + 1
    /\ UNCHANGED <<lines, strategy, ipc, identified, attempts>>
    /\ UNCHANGED fixVars
    /\ UNCHANGED notRes

\* parse_json_response returned None: return None
ChunkFails ==
    /\ AtChunk
    /\ ~IsBlank(num_chunks, ci)
    /\ text_calls' = TextCall("none")
    /\ attempts' = Attempt(FALSE, <<>>)
    /\ strategy' = strategy + 1
    /\ ipc' = "strategy"
    /\ UNCHANGED <<lines, ci, current_sections, identified>>
    /\ UNCHANGED fixVars
    /\ UNCHANGED notRes

\* parse_json_response raised (an infinite page number, OverflowError): nothing
\* between it and the caller of _identify_structure catches the exception
ChunkRaises ==
    /\ AtChunk
    /\ ~IsBlank(num_chunks, ci)
    /\ text_calls' = TextCall("raised")
    /\ attempts' = Attempt(FALSE, <<>>)
    /\ ipc' = "raised"
    /\ UNCHANGED <<lines, strategy, ci, current_sections, identified>>
    /\ UNCHANGED fixVars
    /\ UNCHANGED notRes

\* the chunk loop is over: SectionProcessor.fix_section_boundaries is called
CallFix ==
    /\ ipc = "chunk"
    /\ ci >= num_chunks
    /\ ipc' = "fix"
    /\ sections' = current_sections.list
    /\ first_input' = current_sections.list
    /\ sorted_sections' = <<>>
    /\ fixed_sections' = <<>>
    /\ final_sections' = <<>>
    /\ i' = 1
    /\ pc' = "call"
    /\ pass' = 1
    /\ first_result' = <<>>
    /\ UNCHANGED <<lines, strategy, ci, current_sections, identified,
                   text_calls, attempts>>
    /\ UNCHANGED notRes

\* return sections if sections else None; in _identify_structure the first
\* non-empty list is returned, otherwise the next strategy is tried
StrategyReturns ==
    /\ ipc = "fix"
    /\ pc = "done"
    /\ attempts' = Attempt(final_sections # <<>>, final_sections)
    /\ IF final_sections # <<>>
       THEN /\ identified' = final_sections
            /\ ipc' = "returned"
            /\ strategy' = strategy
       ELSE /\ identified' = identified
            /\ ipc' = "strategy"
            /\ strategy' = strategy + 1
    /\ sections' = <<>>
    /\ first_input' = <<>>
    /\ sorted_sections' = <<>>
    /\ fixed_sections' = <<>>
    /\ final_sections' = <<>>
    /\ i' = 1
    /\ pc' = "off"
    /\ pass' = 1
    /\ first_result' = <<>>
    /\ UNCHANGED <<lines, ci, current_sections, text_calls>>
    /\ UNCHANGED notRes

\* every strategy is used up: return []
ReturnEmptyList ==
    /\ ipc = "strategy"
    /\ strategy > Len(chunk_strategies)
    /\ identified' = <<>>
    /\ ipc' = "returned"
    /\ UNCHANGED <<lines, strategy, ci, current_sections, text_calls, attempts>>
    /\ UNCHANGED fixVars
    /\ UNCHANGED notRes

----------------------------------------------------------------------------
(* Specifications *)

NextFix ==
    \/ ReturnEmpty
    \/ SortSections
    \/ DropDuplicate
    \/ SplitOverlap
    \/ KeepSection
    \/ EndPhaseA
    \/ FillGap
    \/ KeepGap
    \/ ReturnFinal
    \/ Reapply

\* the reconciler alone: no client is in use
InitReconciler ==
    /\ InitFix
    /\ ReqOff
    /\ PoolOff
    /\ BatchOff
    /\ SchemaOff
    /\ ParseOff
    /\ ResOff

SpecReconciler == InitReconciler /\ [][NextFix]_vars

NextReq ==
    \/ StartRequest
    \/ ReceiveSuccess
    \/ ReceiveUndecodable
    \/ ReceiveNonObject
    \/ ReceiveServerError
    \/ ReceiveOtherStatus
    \/ RequestTimeout
    \/ RequestFailed
    \/ UnexpectedError
    \/ LoopEnd
    \/ ReturnFailure

\* the client alone: the reconciler is not running
InitTransport ==
    /\ InitReq
    /\ FixOff
    /\ PoolOff
    /\ BatchOff
    /\ SchemaOff
    /\ ParseOff
    /\ ResOff

SpecTransport == InitTransport /\ [][NextReq]_vars

NextPool ==
    \/ \E b \in Batches : Submit(b)
    \/ BeginCollect
    \/ \E b \in Batches : StartTask(b)
    \/ \E b \in Batches : PostResponds(b)
    \/ \E b \in Batches : StoreCount(b)
    \/ \E b \in Batches : PostRaises(b)
    \/ \E b \in Batches : AttemptsUsedUp(b)
    \/ \E b \in Batches : WriteResult(b)
    \/ \E b \in Batches : TaskRaises(b)
    \/ \E b \in Batches : Collect(b)
    \/ ExitPool
    \/ Aggregate

\* one client shared by the tasks of one _process_batches call
InitPoolClient ==
    /\ InitPool
    /\ max_retries \in 0..MaxPoolRetries
    /\ request_count = 0
    /\ attempt = 0
    /\ last_error = NoError
    /\ rpc = "off"
    /\ history = <<>>
    /\ slept = <<>>
    /\ returned = NoValue
    /\ count_before = 0
    /\ calls = 0
    /\ FixOff
    /\ BatchOff
    /\ SchemaOff
    /\ ParseOff
    /\ ResOff

SpecPool == InitPoolClient /\ [][NextPool]_vars

\* the threads keep running: the pool's workers and the collecting thread
\* are scheduled, every post ends
SpecPoolLive == InitPoolClient /\ [][NextPool]_vars /\ WF_vars(NextPool)

NextBatch ==
    \/ AppendBatch
    \/ SkipBatch
    \/ ReturnBatches

InitBatcher ==
    /\ InitBatch
    /\ FixOff
    /\ ReqOff
    /\ PoolOff
    /\ SchemaOff
    /\ ParseOff
    /\ ResOff

SpecBatcher == InitBatcher /\ [][NextBatch]_vars

NextSchema ==
    \/ RejectShape
    \/ SkipNonDict
    \/ SkipMissingField
    \/ CoercionRaises
    \/ SkipBadStart
    \/ SkipInverted
    \/ AppendSection
    \/ ReturnValidated

InitValidator ==
    /\ InitSchema
    /\ FixOff
    /\ ReqOff
    /\ PoolOff
    /\ BatchOff
    /\ ParseOff
    /\ ResOff

SpecSchema == InitValidator /\ [][NextSchema]_vars

NextParse ==
    \/ ReturnEmptyResponse
    \/ DirectParse
    \/ CodeBlocks
    \/ Brackets
    \/ Recovery

InitParser ==
    /\ InitParse
    /\ FixOff
    /\ ReqOff
    /\ PoolOff
    /\ BatchOff
    /\ SchemaOff
    /\ ResOff

SpecParser == InitParser /\ [][NextParse]_vars

\* _identify_structure with the fix_section_boundaries calls it makes
NextRes ==
    \/ StartStrategy
    \/ SkipBlankChunk
    \/ ChunkParsed
    \/ ChunkFails
    \/ ChunkRaises
    \/ CallFix
    \/ ReturnEmpty
    \/ SortSections
    \/ DropDuplicate
    \/ SplitOverlap
    \/ KeepSection
    \/ EndPhaseA
    \/ FillGap
    \/ KeepGap
    \/ ReturnFinal
    \/ StrategyReturns
    \/ ReturnEmptyList

InitResolver ==
    /\ InitRes
    /\ FixOff
    /\ ReqOff
    /\ PoolOff
    /\ BatchOff
    /\ SchemaOff
    /\ ParseOff

SpecResolver == InitResolver /\ [][NextRes]_vars

\* the client keeps running: every requests.post ends (in a response or an
\* exception, at the latest at its timeout) and every sleep ends
SpecTransportLive == InitTransport /\ [][NextReq]_vars /\ WF_vars(NextReq)

----------------------------------------------------------------------------
(* Properties of fix_section_boundaries *)

FirstCallDone == pc = "done" /\ pass = 1

Pages(s) == s.startPage .. s.endPage

NoConsecutiveOverlap(s) ==
    \A k \in 1..(Len(s) - 1) : ~(s[k].endPage >= s[k + 1].startPage)

\* C1: for valid input, no two distinct sections of the returned list share a
\* page (every pair, not only adjacent ones, has disjoint page intervals).
C1_PairwiseDisjoint ==
    FirstCallDone =>
        \A a, b \in 1..Len(final_sections) :
            a # b => Pages(final_sections[a]) \cap Pages(final_sections[b]) = {}

\* C2: for valid input, the returned list is sorted in non-decreasing order of
\* startPage.
C2_SortedByStart ==
    FirstCallDone =>
        \A k \in 1..(Len(final_sections) - 1) :
            final_sections[k].startPage <= final_sections[k + 1].startPage

\* C3: for valid input, every returned section has startPage >= 1 and
\* endPage >= startPage.
C3_ValidOutput ==
    FirstCallDone =>
        \A k \in 1..Len(final_sections) : ValidSection(final_sections[k])

\* C4: for all inputs, neither the list produced by phase A nor the returned
\* list holds two consecutive sections with current.endPage >= next.startPage.
C4_NoConsecutiveOverlap ==
    /\ pc \in {"phaseB", "done"} => NoConsecutiveOverlap(fixed_sections)
    /\ pc = "done" => NoConsecutiveOverlap(final_sections)

\* C4 witness: a three-section result whose sorted input began with an overlap.
C4_Witness ==
    /\ FirstCallDone
    /\ Len(final_sections) = 3
    /\ SortByStart(first_input)[1].endPage >= SortByStart(first_input)[2].startPage
    /\ final_sections[1].endPage < SortByStart(first_input)[1].endPage

\* C5: fix_section_boundaries is idempotent: the call on the first call's
\* result returns that result unchanged.
C5_Idempotent ==
    (pc = "done" /\ pass = 2) => final_sections = first_result

\* C6: two exact duplicates reconcile to the earlier one of the input order:
\* [{A,1,10},{B,1,10}] yields the single section A spanning 1-10.
C6_KeepsFirstDuplicate ==
    ( /\ FirstCallDone
      /\ Len(first_input) = 2
      /\ first_input[1].startPage = first_input[2].startPage
      /\ first_input[1].endPage = first_input[2].endPage )
    => final_sections = <<first_input[1]>>

\* the split step of phase A, stated on the lists before and after the step
C7_SplitStep ==
    ( /\ pc = "phaseA"
      /\ i < Len(sorted_sections)
      /\ sorted_sections[i].endPage >= sorted_sections[i + 1].startPage
      /\ ~( /\ sorted_sections[i].startPage = sorted_sections[i + 1].startPage
            /\ sorted_sections[i].endPage = sorted_sections[i + 1].endPage ) )
    => LET c  == sorted_sections[i]
           n  == sorted_sections[i + 1]
           c2 == fixed_sections'[Len(fixed_sections')]
           n2 == sorted_sections'[i + 1]
           m  == c2.endPage
       IN  /\ Len(fixed_sections') = Len(fixed_sections) + 1
           /\ 2 * m <= c.endPage + n.startPage
           /\ c.endPage + n.startPage <= 2 * m + 1
           /\ n2.startPage = m + 1
           /\ c2.name = c.name /\ c2.startPage = c.startPage
           /\ n2.name = n.name /\ n2.endPage = n.endPage

C7_Example ==
    (FirstCallDone /\ first_input = <<Section("A", 1, 10), Section("B", 8, 20)>>)
    => final_sections = <<Section("A", 1, 9), Section("B", 10, 20)>>

\* C7: an overlapping pair that is no exact duplicate is split at
\* m = floor((current.endPage + next.startPage) / 2): current.endPage = m,
\* next.startPage = m + 1, names, current.startPage and next.endPage unchanged;
\* [{A,1,10},{B,8,20}] becomes [{A,1,9},{B,10,20}].
C7_MidpointSplit == [][C7_SplitStep]_vars /\ []C7_Example

\* C7 witness: the worked example has been split at page 9.
C7_Witness ==
    /\ pc = "phaseB"
    /\ first_input = <<Section("A", 1, 10), Section("B", 8, 20)>>
    /\ fixed_sections = <<Section("A", 1, 9), Section("B", 10, 20)>>

\* one iteration of phase B, stated on the lists before and after the step
C8_GapStep ==
    (pc = "phaseB" /\ i < Len(fixed_sections))
    => LET g   == fixed_sections[i + 1].startPage - fixed_sections[i].endPage - 1
           out == final_sections'[Len(final_sections')]
       IN  /\ Len(final_sections') = Len(final_sections) + 1
           /\ fixed_sections' = fixed_sections
           /\ (0 < g /\ g <= 5) =>
                 out = [fixed_sections[i] EXCEPT
                           !.endPage = fixed_sections[i + 1].startPage - 1]
           /\ (g > 5 \/ g = 0) => out = fixed_sections[i]

C8_FinalGaps ==
    pc = "done" =>
        /\ Len(final_sections) = Len(fixed_sections)
        /\ \A k \in 1..Len(final_sections) :
              final_sections[k].startPage = fixed_sections[k].startPage
        /\ \A k \in 1..(Len(final_sections) - 1) :
              LET g == final_sections[k + 1].startPage
                          - final_sections[k].endPage - 1
              IN  g = 0 \/ g > 5

\* C8: phase B extends current.endPage to next.startPage - 1 when 0 < gap <= 5
\* and leaves the pair unchanged when gap > 5 or gap = 0; every gap of the
\* returned list is 0 or greater than 5, and no startPage changes in phase B.
C8_GapFill == [][C8_GapStep]_vars /\ []C8_FinalGaps

\* C8 witness: the gap of five pages of the worked example has been absorbed.
C8_Witness ==
    /\ pc = "done"
    /\ first_input = <<Section("A", 1, 10), Section("B", 16, 30)>>
    /\ final_sections = <<Section("A", 1, 15), Section("B", 16, 30)>>

----------------------------------------------------------------------------
(* Properties of _make_request *)

LastOutcome == history[Len(history)]

IsHttpIn(o, S) == o.kind = "http" /\ o.status \in S

\* C9: with max_retries = 3, k < 3 retryable 5xx responses followed by a 200
\* response make exactly k + 1 attempts, return the decoded `result` field and
\* raise request_count by exactly k + 1; the call never returns after fewer
\* than 3 attempts that all met a retryable 5xx response.
C9_RetryThenSuccess ==
    (max_retries = 3 /\ rpc = "returned") =>
        /\ (\A j \in 1..Len(history) : IsHttpIn(history[j], {500, 502, 503, 504}))
              => Len(history) = 3
        /\ ( /\ history # <<>>
             /\ LastOutcome.kind = "http" /\ LastOutcome.status = 200
             /\ LastOutcome.body \in {"result", "noresult"}
             /\ \A j \in 1..(Len(history) - 1) :
                   IsHttpIn(history[j], {500, 502, 503, 504}) )
              => /\ Len(history) <= 3
                 /\ attempt + 1 = Len(history)
                 /\ returned.kind = "result"
                 /\ returned.text = (IF LastOutcome.body = "result" THEN "RESULT" ELSE "")
                 /\ request_count = count_before + Len(history)

\* C9 witness: two 503 responses then a 200, on a client that already counted
\* requests of an earlier call.
C9_Witness ==
    /\ rpc = "returned"
    /\ max_retries = 3
    /\ count_before > 0
    /\ history = <<Http(503, "none"), Http(503, "none"), Http(200, "result")>>
    /\ returned = ResultValue("RESULT")
    /\ request_count = count_before + 3

\* a response with a status of S is transient: the call returns right after it
\* only on the last permitted attempt, and every earlier one was followed by a
\* backoff sleep and another attempt
TransientStatuses(S) ==
    /\ (rpc = "returned" /\ history # <<>> /\ IsHttpIn(LastOutcome, S))
          => Len(history) = max_retries
    /\ \A j \in 1..(Len(history) - 1) :
          IsHttpIn(history[j], S) =>
              /\ j <= Len(slept)
              /\ slept[j] > 0

TerminalStatuses == Statuses \ {200, 500, 502, 503, 504}

\* C11: a response whose status is neither 200 nor a retryable server error
\* ends the call at that attempt, whatever its index: the error string is
\* returned, no backoff delay is slept after it and no later attempt is made.
C11_TerminalStatusReturns ==
    \A j \in 1..Len(history) :
        IsHttpIn(history[j], TerminalStatuses) =>
            /\ j = Len(history)
            /\ rpc = "returned"
            /\ returned = ApiError(history[j].status)
            /\ attempt = j - 1
            /\ Len(slept) = j - 1

\* C11 witness: a 404 on the second attempt, after one backoff, ended the call.
C11_Witness ==
    /\ rpc = "returned"
    /\ max_retries = 3
    /\ history = <<Http(503, "none"), Http(404, "none")>>
    /\ slept = <<15>>
    /\ returned = ApiError(404)

IsUnexpected(o) ==
    \/ o.kind = "unexpected"
    \/ (o.kind = "http" /\ o.status = 200 /\ o.body = "notdict")

\* C12: an unexpected (non-network) exception ends the retry loop at once: no
\* backoff delay is slept, no further attempt is made even if attempts remain,
\* and a failure string is returned.
C12_UnexpectedAborts ==
    \A j \in 1..Len(history) :
        IsUnexpected(history[j]) =>
            /\ j = Len(history)
            /\ rpc \in {"exit", "returned"}
            /\ attempt = j - 1
            /\ Len(slept) = j - 1
            /\ rpc = "returned" => returned = Failure(ErrorOf("unexpected", 0))

\* C12 witness: the first of three attempts met an unexpected exception and the
\* call returned the failure string with two attempts left.
C12_Witness ==
    /\ rpc = "returned"
    /\ max_retries = 3
    /\ history = <<Raised("unexpected")>>
    /\ slept = <<>>
    /\ returned = Failure(ErrorOf("unexpected", 0))

\* C13: whatever the outcomes of the attempts and for every max_retries >= 0,
\* no exception leaves _make_request, and a finished call has returned a value.
C13_NeverRaises ==
    /\ rpc # "raised"
    /\ rpc = "returned" => returned.kind \in {"result", "api_error", "failed"}

\* C13 witness: a 200 response whose body is no object (AttributeError inside
\* the try statement) ended in a returned failure string.
C13_Witness ==
    /\ rpc = "returned"
    /\ history # <<>>
    /\ LastOutcome = Http(200, "notdict")
    /\ returned.kind = "failed"

IsTransient(o) ==
    \/ o.kind \in {"timeout", "connection"}
    \/ IsHttpIn(o, {500, 502, 503, 504})

\* the running call has made at most max_retries attempts, and a call that
\* returned after max_retries transient failures returned the last error
C14_Bounded ==
    /\ Len(history) <= max_retries
    /\ ( /\ rpc = "returned"
         /\ Len(history) = max_retries
         /\ \A j \in 1..Len(history) : IsTransient(history[j]) )
       => IF max_retries = 0
          THEN returned = Failure(NoError)
          ELSE IF LastOutcome.kind = "http"
               THEN returned = ApiError(LastOutcome.status)
               ELSE returned = Failure(ErrorOf(IF LastOutcome.kind = "timeout"
                                               THEN "timeout" ELSE "request", 0))

\* C14: one call always terminates and makes at most max_retries attempts;
\* after the max_retries-th transient failure it returns the last error.
C14_TerminatesWithinBudget ==
    /\ []C14_Bounded
    /\ (rpc = "loop") ~> (rpc = "returned")

\* C14 witness: three timeouts used up a budget of three attempts.
C14_Witness ==
    /\ rpc = "returned"
    /\ max_retries = 3
    /\ history = <<Raised("timeout"), Raised("timeout"), Raised("timeout")>>
    /\ returned = Failure(ErrorOf("timeout", 0))

\* an attempt after which the loop goes on
C15_Retried(o) ==
    \/ IsTransient(o)
    \/ (o.kind = "http" /\ o.status = 200 /\ o.body = "notjson")

\* C15: a backoff delay is slept only between a transiently failed attempt k
\* (0-indexed) and attempt k + 1, lasts 1.5 * 2^k seconds (15 and 30 tenths of
\* a second for max_retries = 3), and none is slept after the last permitted
\* attempt or before a return.
C15_BackoffDelays ==
    /\ \A j \in 1..Len(slept) :
          /\ slept[j] = 15 * 2^(j - 1)
          /\ j <= Len(history)
          /\ C15_Retried(history[j])
          /\ j < max_retries
    /\ max_retries = 3 => slept \in {<<>>, <<15>>, <<15, 30>>}
    /\ rpc = "loop" => Len(slept) = (IF attempt < max_retries \/ max_retries = 0
                                     THEN attempt ELSE max_retries - 1)
    /\ (rpc \in {"exit", "returned"} /\ history # <<>>)
          => Len(slept) = Len(history) - 1
    /\ history = <<>> => slept = <<>>

\* C15 witness: two transient failures were each followed by a delay, 1.5 s
\* then 3 s, and the third, last attempt was followed by none.
C15_Witness ==
    /\ rpc = "returned"
    /\ max_retries = 3
    /\ history = <<Raised("timeout"), Http(503, "none"), Raised("connection")>>
    /\ slept = <<15, 30>>

----------------------------------------------------------------------------
(* Properties of the batch pool *)

\* C16: the request counter is updated atomically under concurrent use: once
\* every worker has finished, request_count equals the number of increments
\* performed by all threads (no increment is lost).
C16_NoLostIncrement ==
    cpc = "done" => request_count = increments

\* C20: each batch's text_result is written exactly once in every
\* interleaving, by its worker on success or by the collecting thread with the
\* error marker on failure, never both; it is read for aggregation only after
\* every task has completed and the pool has been joined.
C20_WrittenOnceReadAfterJoin ==
    /\ \A b \in Batches :
          /\ Len(writers[b]) <= 1
          /\ writers[b] = <<"worker">> =>
                task[b] = "done" /\ text_result[b] = "response"
          /\ writers[b] = <<"collector">> =>
                task[b] = "failed" /\ b \in handled /\ text_result[b] = "ERREUR"
          /\ writers[b] = <<>> => text_result[b] = "None"
          /\ cpc \in {"joined", "done"} =>
                b \in Completed /\ Len(writers[b]) = 1
    /\ cpc # "done" => aggregated = <<>>
    /\ cpc = "done" =>
          /\ unfinished_at_read = {}
          /\ aggregated = text_result

\* C20 witness: of two batches one was written by its worker and the other,
\* whose task failed, by the collecting thread; both were then read.
C20_Witness ==
    /\ cpc = "done"
    /\ batch_count = 2
    /\ writers[1] = <<"worker">>
    /\ writers[2] = <<"collector">>
    /\ aggregated = <<"response", "ERREUR">>

----------------------------------------------------------------------------
(* Properties of _create_batches *)

PageSet(b) == {b.page_nums[k] : k \in 1..Len(b.page_nums)}

\* C19: when every batch renders, the returned batches are in ascending page
\* order, their page_nums are pairwise disjoint, contiguous and together equal
\* {1..total_pages}; every batch but the last has batch_size pages, the last
\* has between 1 and batch_size, and batch_num runs 1..n in order.
C19_BatchesPartitionPages ==
    (bpc = "returned" /\ all_rendered) =>
        LET n == Len(batches)
        IN  /\ \A k \in 1..n :
                  /\ batches[k].batch_num = k
                  /\ batches[k].page_nums =
                        [m \in 1..(batches[k].end_page - batches[k].start_page + 1)
                            |-> batches[k].start_page + m - 1]
                  /\ Len(batches[k].page_nums) >= 1
                  /\ Len(batches[k].page_nums) <= batch_size
                  /\ k < n => Len(batches[k].page_nums) = batch_size
                  /\ k < n => batches[k + 1].start_page = batches[k].end_page + 1
            /\ \A k, m \in 1..n :
                  k # m => PageSet(batches[k]) \cap PageSet(batches[m]) = {}
            /\ UNION {PageSet(batches[k]) : k \in 1..n} = 1..total_pages
            /\ total_pages = 0 => batches = <<>>

\* C19 witness: five pages in batches of two gave the batches 1-2, 3-4 and 5.
C19_Witness ==
    /\ bpc = "returned"
    /\ all_rendered
    /\ total_pages = 5
    /\ batch_size = 2
    /\ Len(batches) = 3
    /\ batches[3].page_nums = <<5>>

----------------------------------------------------------------------------
(* Properties of _validate_schema *)

\* an element that is an object with the three fields, page numbers that can
\* be converted, startPage >= 1 and endPage >= startPage
Survives(e) ==
    /\ e.kind = "dict"
    /\ e.startPage.kind \in {"int", "float", "str"}
    /\ e.endPage.kind \in {"int", "float", "str"}
    /\ IntOf(e.startPage) >= 1
    /\ IntOf(e.endPage) >= IntOf(e.startPage)

RECURSIVE Survivors(_)
Survivors(s) ==
    IF s = <<>>
    THEN <<>>
    ELSE LET e == Head(s)
         IN  (IF Survives(e)
              THEN <<Section(e.name, IntOf(e.startPage), IntOf(e.endPage))>>
              ELSE <<>>) \o Survivors(Tail(s))

\* C18: for an object whose sections field is a list, _validate_schema returns
\* exactly the surviving elements in their original order, and none exactly
\* when no element survives; a validated result is never empty and each of its
\* sections has 1 <= startPage <= endPage.
C18_ReturnsSurvivors ==
    data.shape = "list" =>
        /\ spc # "raised"
        /\ spc = "returned" =>
              /\ schema_result = IF Survivors(data.sections) = <<>>
                                 THEN NoneResult
                                 ELSE [kind |-> "dict",
                                       sections |-> Survivors(data.sections)]
              /\ schema_result.kind = "dict" =>
                    /\ schema_result.sections # <<>>
                    /\ \A k \in 1..Len(schema_result.sections) :
                          /\ 1 <= schema_result.sections[k].startPage
                          /\ schema_result.sections[k].startPage
                                <= schema_result.sections[k].endPage

----------------------------------------------------------------------------
(* Properties of parse_json_response *)

\* every fenced block or inline span of one form, in text order
BlocksOf(text, form) ==
    SelectSeq([k \in 1..Len(text) |->
                  [pos |-> k, kind |-> text[k].kind, form |-> text[k].form]],
              LAMBDA b : b.form = form)

\* the candidates in the order of the stages: the direct parse, every tagged
\* block, every untagged block, every inline span, the balanced-brace span,
\* the repaired text
CandidatesInOrder(text) ==
    <<attempt_direct_parse(text)>>
        \o BlocksOf(text, "tagged")
        \o BlocksOf(text, "untagged")
        \o BlocksOf(text, "inline")
        \o <<extract_by_brackets(text), attempt_recovery(text)>>

\* the segment of the first candidate that passes validation, 0 if none does
FirstValid(text) ==
    LET cs == CandidatesInOrder(text)
        ok == {k \in 1..Len(cs) : Accepted(cs[k])}
    IN  IF ok = {} THEN 0 ELSE cs[CHOOSE k \in ok : \A m \in ok : k <= m].pos

\* C17: parse_json_response returns the validation result of the first
\* candidate, in stage order, that passes schema validation, and none only if
\* no candidate passes; a later valid fenced block is accepted even when an
\* earlier fenced block parses but fails validation.
C17_FirstValidCandidateWins ==
    ppc = "returned" => parse_result.pos = FirstValid(response_text)

----------------------------------------------------------------------------
(* Frame properties *)

Responses(h) == {j \in 1..Len(h) : h[j].kind = "http"}

\* C28: request_count grows by one for each attempt that received an HTTP
\* response, whatever its status, and not at all for an attempt whose send
\* raised; after a call it is its previous value plus the number of responses,
\* which can be less than the number of attempts.
C28_CountsResponses ==
    rpc \in {"loop", "exit", "returned"} =>
        /\ request_count = count_before + Cardinality(Responses(history))
        /\ request_count <= count_before + Len(history)

\* C28 witness: three attempts, a timeout, a 500 response and an exception of
\* the send, raised the counter by one.
C28_Witness ==
    /\ rpc = "returned"
    /\ max_retries = 3
    /\ history = <<Raised("timeout"), Http(500, "none"), Raised("unexpected")>>
    /\ request_count = count_before + 1

----------------------------------------------------------------------------
(* Further properties of the batch pool *)

\* after the join every batch has a text: the marker if its task failed, the
\* text of its vision call otherwise
C21_Populated ==
    cpc \in {"joined", "done"} =>
        \A b \in Batches :
            /\ task[b] \in {"done", "failed"}
            /\ task[b] = "failed" => text_result[b] = "ERREUR"
            /\ task[b] = "done" => text_result[b] = "response"

\* C21: whatever subset of the batch tasks fails, each failed batch gets the
\* error marker, every other batch the text of its own call, the pool is not
\* aborted, and the run goes on to structure resolution with every
\* text_result populated.
C21_FailureIsolated ==
    /\ []C21_Populated
    /\ (cpc = "submit") ~> (cpc = "done")

\* C21 witness: the first of two tasks failed, the second one still wrote its
\* text, and aggregation took place.
C21_Witness ==
    /\ cpc = "done"
    /\ batch_count = 2
    /\ task = <<"failed", "done">>
    /\ text_result = <<"ERREUR", "response">>

\* C22: the aggregated text lists the batches in original batch order
\* (ascending batch_num) whatever the order in which the tasks completed, each
\* with its own result.
C22_OriginalOrder ==
    cpc = "done" =>
        /\ headers = [k \in Batches |-> k]
        /\ aggregated = [k \in Batches |-> text_result[k]]

\* C22 witness: batch 2 completed before batch 1 and the aggregated text still
\* has batch 1 first.
C22_Witness ==
    /\ cpc = "done"
    /\ batch_count = 2
    /\ collected = <<2, 1>>
    /\ headers = <<1, 2>>
    /\ aggregated = <<"ERREUR", "response">>

----------------------------------------------------------------------------
(* Properties of _identify_structure *)

CallsOf(n) == {k \in 1..Len(text_calls) : text_calls[k].num_chunks = n}

FailedAttempt(n) ==
    \E j \in 1..Len(attempts) : attempts[j].num_chunks = n /\ ~attempts[j].ok

LastAttempt == attempts[Len(attempts)]

\* C23: the chunk counts are tried in the order 1, 3, 5; a text call of a
\* strategy is issued only after every coarser strategy has failed; once a
\* strategy succeeds no further text call is issued and its reconciled list is
\* the result.
C23_StrategyOrder ==
    /\ \A j \in 1..Len(attempts) :
          /\ j <= 3
          /\ attempts[j].num_chunks = <<1, 3, 5>>[j]
          /\ attempts[j].ok => (j = Len(attempts) /\ ipc = "returned")
    /\ \A k \in 1..Len(text_calls) :
          /\ text_calls[k].num_chunks \in {1, 3, 5}
          /\ \A n \in {1, 3, 5} :
                n < text_calls[k].num_chunks => FailedAttempt(n)
          /\ k > 1 => text_calls[k - 1].num_chunks <= text_calls[k].num_chunks
    /\ (ipc = "returned" /\ identified # <<>>) =>
          /\ attempts # <<>>
          /\ LastAttempt.ok
          /\ identified = LastAttempt.result
          /\ \A k \in 1..Len(text_calls) :
                text_calls[k].num_chunks <= LastAttempt.num_chunks

\* C23 witness: the 1-chunk strategy failed, the 3-chunk strategy succeeded
\* and the run returned without any call of the 5-chunk strategy.
C23_Witness ==
    /\ ipc = "returned"
    /\ Len(attempts) = 2
    /\ ~attempts[1].ok
    /\ attempts[2].ok
    /\ identified # <<>>
    /\ CallsOf(1) # {} /\ CallsOf(3) # {} /\ CallsOf(5) = {}

\* C24: when every strategy (1, 3 and 5 chunks) has failed the run returns the
\* empty list and raises nothing; a returned list is non-empty exactly when
\* some strategy issued at least one text call and all its chunk extractions
\* succeeded.
C24_EmptyListNoRaise ==
    /\ (Len(attempts) = 3 /\ \A j \in 1..3 : ~attempts[j].ok) =>
          /\ ipc # "raised"
          /\ ipc = "returned" => identified = <<>>
    /\ ipc = "returned" =>
          (identified # <<>>
              <=> \E n \in {1, 3, 5} :
                     /\ CallsOf(n) # {}
                     /\ \A k \in CallsOf(n) : text_calls[k].outcome = "sections")

\* C25: within a strategy the chunks are handled one after another; the first
\* chunk whose extraction yields none ends the strategy (no call for the
\* remaining chunks, no retry); the next strategy starts from an empty list, so
\* no section of a failed strategy reaches a later context or result.
C25_AbandonAndRestart ==
    /\ \A k \in 1..Len(text_calls) :
          /\ text_calls[k].context \in {0, text_calls[k].num_chunks}
          /\ (k = 1 \/ text_calls[k - 1].num_chunks # text_calls[k].num_chunks)
                => text_calls[k].context = 0
          /\ (k > 1 /\ text_calls[k - 1].num_chunks = text_calls[k].num_chunks)
                => /\ text_calls[k - 1].outcome = "sections"
                   /\ text_calls[k - 1].part < text_calls[k].part
                   /\ text_calls[k].context = text_calls[k].num_chunks
          /\ text_calls[k].outcome # "sections" =>
                \A m \in (k + 1)..Len(text_calls) :
                    text_calls[m].num_chunks # text_calls[k].num_chunks
    /\ ipc \in {"chunk", "fix"} =>
          /\ current_sections.origin \in {0, num_chunks}
          /\ current_sections.origin = 0 <=> current_sections.list = <<>>
    /\ ipc = "fix" => first_input = current_sections.list
    /\ (ipc = "returned" /\ identified # <<>>) =>
          current_sections.origin = LastAttempt.num_chunks

\* C25 witness: the 3-chunk strategy got sections for its first chunk and none
\* for its second; its third chunk was never sent and the 5-chunk strategy
\* began with an empty context.
C25_Witness ==
    /\ Len(lines) = 5
    /\ \A k \in 1..5 : lines[k]
    /\ Len(text_calls) >= 4
    /\ text_calls[2].num_chunks = 3 /\ text_calls[2].outcome = "sections"
    /\ text_calls[3].num_chunks = 3 /\ text_calls[3].outcome = "none"
    /\ text_calls[3].part = 2
    /\ text_calls[4].num_chunks = 5 /\ text_calls[4].context = 0

\* the longest list fix_section_boundaries is called on
C27_Longest == IF AnsLen > 2 THEN AnsLen ELSE 2

C27_FixBudget == 2 * C27_Longest + 4

C27_StrategyBudget == C27_FixBudget + 9

\* steps left in the running fix_section_boundaries call, at most
C27_FixRank ==
    CASE pc = "call" -> 2 * Len(sections) + 4
      [] pc = "phaseA" -> 2 * Len(sorted_sections) + 3 - i
      [] pc = "phaseB" -> Len(fixed_sections) + 2 - i
      [] OTHER -> 0

\* steps left in the run, at most
C27_Rank ==
    IF ipc \in {"strategy", "chunk", "fix"}
    THEN (4 - strategy) * C27_StrategyBudget
            + (CASE ipc = "strategy" -> C27_StrategyBudget - 1
                 [] ipc = "chunk" -> C27_FixBudget + 1 + num_chunks - ci
                 [] OTHER -> C27_FixRank)
    ELSE 0

C27_Bounded ==
    /\ C27_Rank >= 0
    /\ Len(text_calls) <= 9
    /\ \A n \in {1, 3, 5} : Cardinality(CallsOf(n)) <= n
    /\ \A k \in 1..Len(text_calls) :
          \E x \in ChunkLines(text_calls[k].num_chunks, text_calls[k].part - 1) :
              lines[x]
    /\ \A j \in 1..Len(attempts) :
          ~attempts[j].ok =>
              \/ CallsOf(attempts[j].num_chunks) = {}
              \/ \E k \in CallsOf(attempts[j].num_chunks) :
                    text_calls[k].outcome # "sections"

\* C27: a run always terminates (every step lowers a natural-number measure)
\* and issues at most 1 + 3 + 5 = 9 text calls; a blank chunk issues no call
\* and does not by itself fail its strategy.
C27_TerminatesWithinNineCalls ==
    /\ [][C27_Rank' < C27_Rank]_vars
    /\ []C27_Bounded

\* C27 witness: a run that issued nine text calls and returned.
C27_Witness ==
    /\ ipc = "returned"
    /\ Len(text_calls) = 9
    /\ Cardinality(CallsOf(5)) = 5

====
